---- MODULE Spec2Model ----
(***************************************************************************)
(* pi_by_digits.go: pi to an arbitrary number of decimal places with       *)
(* Machin's formula, pi = 4 * (4 * arccot(5) - arccot(239)), evaluated in  *)
(* fixed-point arithmetic on math/big integers.                            *)
(*                                                                         *)
(* A *big.Int is modelled as Go represents it: a sign and a magnitude, the *)
(* magnitude a little-endian sequence of digits without leading zeros (the *)
(* digits are of radix 10^4 here, machine words in Go).  The arithmetic is *)
(* done digit by digit, so no value of the program is bounded by the range *)
(* of the model checker's own integers.                                    *)
(***************************************************************************)
EXTENDS Integers, Sequences, FiniteSets, TLC

(***************************************************************************)
(* Bounds of the model.                                                    *)
(***************************************************************************)
\* main: the command line gives any places in -MaxNeg .. MaxPlaces
MaxNeg == 11
MaxPlaces == 50
\* arccot on its own: x in 2 .. MaxX (and 239), unity in 1 .. MaxUnity
\* (and the powers of ten up to 10^MaxExp)
MaxX == 6
MaxUnity == 40
MaxExp == 12
\* a caller of pi making NCalls calls, each with places in 0 .. MaxCallPlaces
NCalls == 3
MaxCallPlaces == 3
\* two calls pi(d1), pi(d2) with d1, d2 in 0 .. MaxPairPlaces
MaxPairPlaces == 12

(***************************************************************************)
(* An expression evaluated once: F at the value of v.  Every operator      *)
(* below takes its arguments and its intermediate results this way, so     *)
(* that none is computed again at each of its uses.                        *)
(***************************************************************************)
With(v, F(_)) == CHOOSE r \in {F(w) : w \in {v}} : TRUE

With2(u, v, F(_, _)) == CHOOSE r \in {F(a, b) : a \in {u}, b \in {v}} : TRUE

(***************************************************************************)
(* math/big, magnitudes (nat): little-endian digit sequences, normalised.  *)
(* A loop over the digits that carries a value from digit to digit is      *)
(* written over a range of digits lo .. hi, split in two halves: the       *)
(* result is that of the loop, digit after digit.                          *)
(***************************************************************************)
Base == 10000

Max(S) == CHOOSE i \in S : \A j \in S : j <= i

\* nat.norm: without leading zeros
NatNorm(a) ==
    With2(a, {i \in 1..Len(a) : a[i] # 0}, LAMBDA v, nz :
        IF nz = {} THEN <<>> ELSE SubSeq(v, 1, Max(nz)))

RECURSIVE NatFromInt(_)
NatFromInt(v) ==
    IF v = 0 THEN <<>> ELSE <<v % Base>> \o NatFromInt(v \div Base)

RECURSIVE NatToInt(_)
NatToInt(a) ==
    IF a = <<>> THEN 0 ELSE a[1] + Base * NatToInt(Tail(a))

\* nat.cmp: the most significant digit that differs decides
NatCmp(a, b) ==
    With2(a, b, LAMBDA u, v :
        IF Len(u) < Len(v) THEN -1
        ELSE IF Len(u) > Len(v) THEN 1
        ELSE With({i \in 1..Len(u) : u[i] # v[i]}, LAMBDA df :
                 IF df = {} THEN 0
                 ELSE IF u[Max(df)] < v[Max(df)] THEN -1 ELSE 1))

NatDigit(a, i) == IF i <= Len(a) THEN a[i] ELSE 0

\* the digits lo .. hi of a + b, and the carry out of them
RECURSIVE NatAddRange(_, _, _, _, _)
NatAddRange(a, b, lo, hi, carry) ==
    IF lo = hi
    THEN With(NatDigit(a, lo) + NatDigit(b, lo) + carry, LAMBDA t :
             [s |-> <<t % Base>>, c |-> t \div Base])
    ELSE With(NatAddRange(a, b, lo, (lo + hi) \div 2, carry), LAMBDA L :
         With(NatAddRange(a, b, (lo + hi) \div 2 + 1, hi, L.c), LAMBDA H :
             [s |-> L.s \o H.s, c |-> H.c]))

\* nat.add
NatAdd(a, b) ==
    With2(a, b, LAMBDA u, v :
        IF u = <<>> THEN v
        ELSE IF v = <<>> THEN u
        ELSE With(NatAddRange(u, v, 1, IF Len(u) > Len(v) THEN Len(u) ELSE Len(v), 0),
                  LAMBDA r : IF r.c = 0 THEN r.s ELSE Append(r.s, r.c)))

\* the digits lo .. hi of a - b, and the borrow out of them
RECURSIVE NatSubRange(_, _, _, _, _)
NatSubRange(a, b, lo, hi, borrow) ==
    IF lo = hi
    THEN With(a[lo] - NatDigit(b, lo) - borrow, LAMBDA t :
             IF t < 0 THEN [s |-> <<t + Base>>, c |-> 1] ELSE [s |-> <<t>>, c |-> 0])
    ELSE With(NatSubRange(a, b, lo, (lo + hi) \div 2, borrow), LAMBDA L :
         With(NatSubRange(a, b, (lo + hi) \div 2 + 1, hi, L.c), LAMBDA H :
             [s |-> L.s \o H.s, c |-> H.c]))

\* nat.sub: a - b for a >= b
NatSub(a, b) ==
    With2(a, b, LAMBDA u, v :
        IF v = <<>> THEN u ELSE NatNorm(NatSubRange(u, v, 1, Len(u), 0).s))

\* the digits lo .. hi of a * d for one digit d, and the carry out of them
RECURSIVE NatMulRange(_, _, _, _, _)
NatMulRange(a, d, lo, hi, carry) ==
    IF lo = hi
    THEN With(a[lo] * d + carry, LAMBDA t :
             [s |-> <<t % Base>>, c |-> t \div Base])
    ELSE With(NatMulRange(a, d, lo, (lo + hi) \div 2, carry), LAMBDA L :
         With(NatMulRange(a, d, (lo + hi) \div 2 + 1, hi, L.c), LAMBDA H :
             [s |-> L.s \o H.s, c |-> H.c]))

\* a * d for one digit d
NatMulDigit(a, d) ==
    With(a, LAMBDA u :
        IF d = 0 \/ u = <<>> THEN <<>>
        ELSE With(NatMulRange(u, d, 1, Len(u), 0), LAMBDA r :
                 IF r.c = 0 THEN r.s ELSE Append(r.s, r.c)))

\* a * Base^k
NatShift(a, k) == With(a, LAMBDA u : IF u = <<>> THEN <<>> ELSE [i \in 1..k |-> 0] \o u)

\* a times the digits lo .. hi of b, each at its place
RECURSIVE NatMulSum(_, _, _, _)
NatMulSum(a, b, lo, hi) ==
    IF lo = hi THEN NatShift(NatMulDigit(a, b[lo]), lo - 1)
    ELSE NatAdd(NatMulSum(a, b, lo, (lo + hi) \div 2),
                NatMulSum(a, b, (lo + hi) \div 2 + 1, hi))

\* nat.mul: the schoolbook product, over the digits of the shorter factor
NatMul(a, b) ==
    With2(a, b, LAMBDA u, v :
        IF u = <<>> \/ v = <<>> THEN <<>>
        ELSE IF Len(u) < Len(v) THEN NatMulSum(v, u, 1, Len(u))
        ELSE NatMulSum(u, v, 1, Len(v)))

\* a divisor small enough for the short division (nat.divW)
IsWord(b) == Len(b) = 1 \/ (Len(b) = 2 /\ b[2] < 20)

\* nat.divW: the digits lo .. hi of (rem, a) div d for a small d, from the
\* most significant down, and the remainder after them
RECURSIVE NatDivWRange(_, _, _, _, _)
NatDivWRange(a, d, lo, hi, rem) ==
    IF lo = hi
    THEN With(rem * Base + a[lo], LAMBDA cur :
             [q |-> <<cur \div d>>, r |-> cur % d])
    ELSE With(NatDivWRange(a, d, (lo + hi) \div 2 + 1, hi, rem), LAMBDA H :
         With(NatDivWRange(a, d, lo, (lo + hi) \div 2, H.r), LAMBDA L :
             [q |-> L.q \o H.q, r |-> L.r]))

\* the largest digit c in lo .. hi with c * b <= r, and the remainder r - c * b
RECURSIVE NatQuoDigit(_, _, _, _)
NatQuoDigit(r, b, lo, hi) ==
    IF lo = hi THEN [q |-> <<lo>>, r |-> NatSub(r, NatMulDigit(b, lo))]
    ELSE IF NatCmp(NatMulDigit(b, (lo + hi + 1) \div 2), r) <= 0
         THEN NatQuoDigit(r, b, (lo + hi + 1) \div 2, hi)
         ELSE NatQuoDigit(r, b, lo, (lo + hi + 1) \div 2 - 1)

\* nat.divLarge: long division by a divisor of several words, the digits
\* lo .. hi of the quotient and the remainder after them
RECURSIVE NatDivLargeRange(_, _, _, _, _)
NatDivLargeRange(a, b, lo, hi, rem) ==
    IF lo = hi
    THEN With(NatNorm(<<a[lo]>> \o rem), LAMBDA cur : NatQuoDigit(cur, b, 0, Base - 1))
    ELSE With(NatDivLargeRange(a, b, (lo + hi) \div 2 + 1, hi, rem), LAMBDA H :
         With(NatDivLargeRange(a, b, lo, (lo + hi) \div 2, H.r), LAMBDA L :
             [q |-> L.q \o H.q, r |-> L.r]))

\* nat.div, for b # 0
NatDiv(a, b) ==
    With2(a, b, LAMBDA u, v :
        IF NatCmp(u, v) < 0 THEN <<>>
        ELSE IF IsWord(v) THEN NatNorm(NatDivWRange(u, NatToInt(v), 1, Len(u), 0).q)
        ELSE NatNorm(NatDivLargeRange(u, v, 1, Len(u), <<>>).q))

\* a mod b = 0, for b # 0
NatDivides(a, b) == With2(a, b, LAMBDA u, v : NatMul(NatDiv(u, v), v) = u)

(***************************************************************************)
(* math/big, Int: a sign and a magnitude; zero is never negative.          *)
(***************************************************************************)
MkInt(neg, abs) == With(abs, LAMBDA m : [neg |-> neg /\ m # <<>>, abs |-> m])

\* big.NewInt(v)
NewInt(v) == IF v < 0 THEN MkInt(TRUE, NatFromInt(-v)) ELSE MkInt(FALSE, NatFromInt(v))

\* a *big.Int variable that refers to no Int (a local that is not in scope)
Nil == [neg |-> TRUE, abs |-> <<>>]

IsZero(a) == a.abs = <<>>

\* x.Cmp(y)
Cmp(x, y) ==
    With2(x, y, LAMBDA a, b :
        IF a.neg # b.neg THEN (IF a.neg THEN -1 ELSE 1)
        ELSE IF a.neg THEN NatCmp(b.abs, a.abs)
        ELSE NatCmp(a.abs, b.abs))

\* z.Neg(x)
Neg(x) == With(x, LAMBDA a : MkInt(~a.neg, a.abs))

\* z.Add(x, y)
Add(x, y) ==
    With2(x, y, LAMBDA a, b :
        IF a.neg = b.neg THEN MkInt(a.neg, NatAdd(a.abs, b.abs))
        ELSE IF NatCmp(a.abs, b.abs) >= 0 THEN MkInt(a.neg, NatSub(a.abs, b.abs))
        ELSE MkInt(~a.neg, NatSub(b.abs, a.abs)))

\* z.Sub(x, y)
Sub(x, y) == Add(x, Neg(y))

\* z.Mul(x, y)
Mul(x, y) == With2(x, y, LAMBDA a, b : MkInt(a.neg # b.neg, NatMul(a.abs, b.abs)))

\* z.Quo(x, y), y # 0: the quotient truncated toward zero
Quo(x, y) == With2(x, y, LAMBDA a, b : MkInt(a.neg # b.neg, NatDiv(a.abs, b.abs)))

\* z.Div(x, y), y # 0: Euclidean division, the quotient of QuoRem moved one
\* away from zero when the remainder is negative
Div(x, y) ==
    With2(x, y, LAMBDA a, b :
        IF a.neg /\ ~NatDivides(a.abs, b.abs)
        THEN IF b.neg THEN Add(Quo(a, b), NewInt(1)) ELSE Sub(Quo(a, b), NewInt(1))
        ELSE Quo(a, b))

\* z.Exp(x, y, nil): x**y, and 1 for y <= 0
RECURSIVE ExpFrom(_, _)
ExpFrom(a, k) ==
    IF k = 0 THEN NewInt(1)
    ELSE With(ExpFrom(a, k \div 2), LAMBDA h :
             IF k % 2 = 0 THEN Mul(h, h) ELSE Mul(Mul(h, h), a))

Exp(x, y) ==
    With2(x, y, LAMBDA a, b :
        IF b.neg \/ IsZero(b) THEN NewInt(1) ELSE ExpFrom(a, NatToInt(b.abs)))

\* x.String(), as fmt.Sprint prints it: a sequence of characters
DigitChar(d) == <<"0", "1", "2", "3", "4", "5", "6", "7", "8", "9">>[d + 1]

\* the decimal digits of v, most significant first
RECURSIVE Decimal(_)
Decimal(v) == IF v < 10 THEN <<DigitChar(v)>> ELSE Append(Decimal(v \div 10), DigitChar(v % 10))

\* the four decimal digits of a digit of the magnitude
Padded(d) == <<DigitChar(d \div 1000), DigitChar((d \div 100) % 10),
               DigitChar((d \div 10) % 10), DigitChar(d % 10)>>

\* the decimal digits of the k least significant digits of the magnitude
NatString(a, k) ==
    [i \in 1..(4 * k) |-> Padded(a[k - ((i - 1) \div 4)])[((i - 1) % 4) + 1]]

String(x) ==
    With(x, LAMBDA a :
        IF IsZero(a) THEN <<"0">>
        ELSE (IF a.neg THEN <<"-">> ELSE <<>>)
             \o Decimal(a.abs[Len(a.abs)]) \o NatString(a.abs, Len(a.abs) - 1))

(***************************************************************************)
(* The program.                                                            *)
(*                                                                         *)
(* pc is the line the program is at.  A *big.Int local is a variable of    *)
(* the model, Nil while it is out of scope.  arccot's parameters x and     *)
(* unity are pointers to its caller's Ints: the model has one x and one    *)
(* unity, which arccot reads in place.  pass counts the passes of arccot's *)
(* loop.  returned is what the calls of pi have returned so far, in order. *)
(***************************************************************************)
VARIABLES pc, places, unity, pi, left, right, x, sum, xpower, n, sign,
          square, term, pass, acret, piret, scaledPi, out, returned

vars == <<pc, places, unity, pi, left, right, x, sum, xpower, n, sign,
          square, term, pass, acret, piret, scaledPi, out, returned>>

piLocals == <<unity, pi, left, right>>
arccotLocals == <<sum, xpower, n, sign, square, term, pass>>
callers == <<piret, scaledPi, out, returned>>

\* line 45: ten := big.NewInt(10)
ten == NewInt(10)
\* line 105: zero := big.NewInt(0)
zero == NewInt(0)

\* a division by zero panics
Panic == pc' = "panic" /\ UNCHANGED <<places, piLocals, x, arccotLocals, acret, callers>>

(***************************************************************************)
(* main and handleCommandLine                                              *)
(***************************************************************************)
\* line 16: the number of places when the command line gives none
Default == 1000

\* the numbers of places the command line can give
Inputs == (0 - MaxNeg) .. MaxPlaces

\* lines 16-17, 21-40: places is the number on the command line (line 35),
\* the default if there is none or it is no number (lines 32-33, 39); call pi
MainCall ==
    /\ pc = "main16"
    /\ \/ \E v \in Inputs : places' = v
       \/ places' = Default
    /\ piret' = "main17"
    /\ pc' = "pi43"
    /\ UNCHANGED <<piLocals, x, arccotLocals, acret, scaledPi, out, returned>>

\* lines 23-29: a call for help prints the usage and exits with status 1
MainHelp ==
    /\ pc = "main16"
    /\ pc' = "exit1"
    /\ UNCHANGED <<places, piLocals, x, arccotLocals, acret, callers>>

\* line 18: "3." and scaledPi[1:]
Format(s) == <<"3", ".">> \o SubSeq(s, 2, Len(s)) \o <<"\n">>

\* lines 17-18: scaledPi := fmt.Sprint(pi(places)); print it
MainPrint ==
    /\ pc = "main17"
    /\ out' = Format(scaledPi)
    /\ pc' = "exit"
    /\ UNCHANGED <<places, piLocals, x, arccotLocals, acret, piret, scaledPi, returned>>

(***************************************************************************)
(* pi                                                                      *)
(***************************************************************************)
\* (a slip: the exponent digits * 10 for digits + 10)
UnityTimes(p) == Exp(ten, Mul(NewInt(p), ten))

\* lines 43-51: unity = 10**(digits + 10)
Unity(p) == Exp(ten, Add(NewInt(p), ten))

\* (a slip: pi kept between calls, not started at 4 by each)
PiStartKept == IF returned = <<>> THEN NewInt(4) ELSE returned[Len(returned)].value

\* line 54: pi := big.NewInt(4)
PiStart == NewInt(4)

\* (a slip: nine of the ten extra digits removed)
GuardShort == Exp(ten, NewInt(9))

\* line 74: the divisor 10**10 that removes the extra digits
Guard == Exp(ten, ten)

\* lines 43-54
PiUnity ==
    /\ pc = "pi43"
    /\ unity' = Unity(places)
    /\ pi' = PiStart
    /\ pc' = "pi60"
    /\ UNCHANGED <<places, left, right, x, arccotLocals, acret, callers>>

\* line 60: the call arccot(big.NewInt(5), unity)
PiCallLeft ==
    /\ pc = "pi60"
    /\ x' = NewInt(5)
    /\ acret' = "pi60r"
    /\ pc' = "ac95"
    /\ UNCHANGED <<places, piLocals, arccotLocals, callers>>

\* (a slip: the left part taken twice, not four times)
LeftTimesTwo(l) == Mul(l, NewInt(2))

\* line 61: left.Mul(left, big.NewInt(4))
LeftTimes(l) == Mul(l, NewInt(4))

\* lines 60-61: left is the Int arccot returned, multiplied in place
PiLeft ==
    /\ pc = "pi60r"
    /\ left' = LeftTimes(sum)
    /\ sum' = Nil
    /\ x' = Nil
    /\ pc' = "pi64"
    /\ UNCHANGED <<places, unity, pi, right, xpower, n, sign, square, term, pass,
                   acret, callers>>

\* line 64: the call arccot(big.NewInt(239), unity)
PiCallRight ==
    /\ pc = "pi64"
    /\ x' = NewInt(239)
    /\ acret' = "pi64r"
    /\ pc' = "ac95"
    /\ UNCHANGED <<places, piLocals, arccotLocals, callers>>

\* line 64: right is the Int arccot returned
PiRight ==
    /\ pc = "pi64r"
    /\ right' = sum
    /\ sum' = Nil
    /\ x' = Nil
    /\ pc' = "pi67"
    /\ UNCHANGED <<places, unity, pi, left, xpower, n, sign, square, term, pass,
                   acret, callers>>

\* line 67: left.Sub(left, right)
PiSub ==
    /\ pc = "pi67"
    /\ left' = Sub(left, right)
    /\ pc' = "pi70"
    /\ UNCHANGED <<places, unity, pi, right, x, arccotLocals, acret, callers>>

\* line 70: pi.Mul(pi, left)
PiMul ==
    /\ pc = "pi70"
    /\ pi' = Mul(pi, left)
    /\ pc' = "pi74"
    /\ UNCHANGED <<places, unity, left, right, x, arccotLocals, acret, callers>>

\* line 74: pi.Div(pi, 10**10)
RemoveGuard(p) == Div(p, Guard)

PiDiv ==
    /\ pc = "pi74"
    /\ IF IsZero(Guard) THEN Panic
       ELSE /\ pi' = RemoveGuard(pi)
            /\ pc' = "pi76"
            /\ UNCHANGED <<places, unity, left, right, x, arccotLocals, acret, callers>>

\* line 76: return pi; the caller prints it (line 17) or records it
PiReturn ==
    /\ pc = "pi76"
    /\ scaledPi' = String(pi)
    /\ returned' = Append(returned, [places |-> places, value |-> pi])
    /\ unity' = Nil /\ pi' = Nil /\ left' = Nil /\ right' = Nil
    /\ pc' = piret
    /\ UNCHANGED <<places, x, arccotLocals, acret, piret, out>>

(***************************************************************************)
(* arccot                                                                  *)
(***************************************************************************)
\* lines 95-100: sum and xpower start as unity / x
FirstTerm(u, v) == Div(u, v)

\* (a slip: square left at x)
SquareForgotten(v) == v

\* (a slip: square left at the 0 it is made with)
SquareUnset(v) == NewInt(0)

\* lines 106-107: square = x * x
Square(v) == Mul(v, v)

\* line 103: n := big.NewInt(3)
FirstN == NewInt(3)

\* (a slip: the second term added, not subtracted)
FirstSignPlus == NewInt(1)

\* line 104: sign := big.NewInt(-1)
FirstSign == NewInt(-1)

\* (a slip: sum is the caller's unity itself, divided in place)
ArccotInitAliased ==
    /\ pc = "ac95"
    /\ IF IsZero(x) THEN Panic
       ELSE /\ sum' = Div(unity, x)
            /\ unity' = sum'
            /\ xpower' = Div(unity', x)
            /\ n' = NewInt(3)
            /\ sign' = NewInt(-1)
            /\ square' = Mul(x, x)
            /\ term' = Nil
            /\ pass' = 0
            /\ pc' = "ac112"
            /\ UNCHANGED <<places, pi, left, right, x, acret, callers>>

\* lines 95-107
ArccotInit ==
    /\ pc = "ac95"
    /\ IF IsZero(x) THEN Panic
       ELSE /\ sum' = FirstTerm(unity, x)
            /\ xpower' = FirstTerm(unity, x)
            /\ n' = FirstN
            /\ sign' = FirstSign
            /\ square' = Square(x)
            /\ term' = Nil
            /\ pass' = 0
            /\ pc' = "ac112"
            /\ UNCHANGED <<places, piLocals, x, acret, callers>>

\* line 112: xpower.Div(xpower, square)
NextPower(p, sq) == Div(p, sq)

\* lines 118-119: term.Div(xpower, n)
Term(p, k) == Div(p, k)

\* lines 110-119: a pass of the loop, up to the test of the term
ArccotTerm ==
    /\ pc = "ac112"
    /\ IF IsZero(square) \/ IsZero(n) THEN Panic
       ELSE /\ xpower' = NextPower(xpower, square)
            /\ term' = Term(xpower', n)
            /\ pass' = pass + 1
            /\ pc' = "ac121"
            /\ UNCHANGED <<places, piLocals, x, sum, n, sign, square, acret, callers>>

\* line 121: term.Cmp(zero) == 0
Exhausted(t) == Cmp(t, zero) = 0

\* lines 121-123, 136: the first zero term ends the loop; return sum
ArccotBreak ==
    /\ pc = "ac121"
    /\ Exhausted(term)
    /\ xpower' = Nil /\ n' = Nil /\ sign' = Nil /\ square' = Nil /\ term' = Nil
    /\ pc' = acret
    /\ UNCHANGED <<places, piLocals, x, sum, pass, acret, callers>>

\* lines 126-127: sum.Add(sum, addend.Mul(sign, term))
Accumulate(s, sg, t) == Add(s, Mul(sg, t))

\* (a slip: n stepped by one)
NextNOne(k) == Add(k, NewInt(1))

\* line 133: n.Add(n, big.NewInt(2))
NextN(k) == Add(k, NewInt(2))

\* lines 126-133: add the term, flip the sign, step n
ArccotAccumulate ==
    /\ pc = "ac121"
    /\ ~Exhausted(term)
    /\ sum' = Accumulate(sum, sign, term)
    /\ sign' = Neg(sign)
    /\ n' = NextN(n)
    /\ pc' = "ac112"
    /\ UNCHANGED <<places, piLocals, x, xpower, square, term, pass, acret, callers>>

Arccot == ArccotInit \/ ArccotTerm \/ ArccotBreak \/ ArccotAccumulate

Pi == PiUnity \/ PiCallLeft \/ PiLeft \/ PiCallRight \/ PiRight \/ PiSub \/ PiMul
      \/ PiDiv \/ PiReturn

(***************************************************************************)
(* The program: main calls pi once.                                        *)
(***************************************************************************)
\* no call of pi or arccot has been made
Blank ==
    /\ places = 0
    /\ pi = Nil /\ left = Nil /\ right = Nil
    /\ sum = Nil /\ xpower = Nil /\ n = Nil /\ sign = Nil
    /\ square = Nil /\ term = Nil /\ pass = 0
    /\ scaledPi = <<>> /\ out = <<>> /\ returned = <<>>

Init ==
    /\ Blank
    /\ unity = Nil /\ x = Nil
    /\ acret = "none" /\ piret = "none"
    /\ pc = "main16"

Next == MainCall \/ MainHelp \/ MainPrint \/ Pi \/ Arccot

Spec == Init /\ [][Next]_vars


(***************************************************************************)
(* arccot on its own: a caller passes any x and unity of the bounded sets. *)
(***************************************************************************)
\* 10^k
Pow10(k) == [neg |-> FALSE, abs |-> [i \in 1..(k \div 4) |-> 0] \o <<10 ^ (k % 4)>>]

XInputs == {NewInt(v) : v \in 2..MaxX} \cup {NewInt(5), NewInt(239)}
UnityInputs == {NewInt(v) : v \in 1..MaxUnity} \cup {Pow10(e) : e \in 0..MaxExp}

\* the caller has made the call arccot(x, unity)
InitArccot ==
    /\ Blank
    /\ x \in XInputs
    /\ unity \in UnityInputs
    /\ acret = "caller" /\ piret = "none"
    /\ pc = "ac95"

NextArccot == Arccot

SpecArccot == InitArccot /\ [][NextArccot]_vars

\* the program runs on: a pass of the loop that can be taken is taken
FairArccot == SpecArccot /\ WF_vars(NextArccot)

(***************************************************************************)
(* pi called several times by one caller.                                  *)
(***************************************************************************)
\* a call pi(v), while fewer than count calls have been made
CallerCall(count, most) ==
    /\ pc = "call"
    /\ Len(returned) < count
    /\ \E v \in 0..most : places' = v
    /\ pc' = "pi43"
    /\ UNCHANGED <<piLocals, x, arccotLocals, acret, callers>>

InitCalls ==
    /\ Blank
    /\ unity = Nil /\ x = Nil
    /\ acret = "none" /\ piret = "call"
    /\ pc = "call"

CallsCall == CallerCall(NCalls, MaxCallPlaces)

NextCalls == CallsCall \/ Pi \/ Arccot

SpecCalls == InitCalls /\ [][NextCalls]_vars

\* two calls, of more places
PairCall == CallerCall(2, MaxPairPlaces)

NextPair == PairCall \/ Pi \/ Arccot

SpecPair == InitCalls /\ [][NextPair]_vars

(***************************************************************************)
(* What the claims are stated with.                                        *)
(***************************************************************************)
\* inside pi, from the computation of unity to the return
InPi == \/ pc \in {"pi60", "pi60r", "pi64", "pi64r", "pi67", "pi70", "pi74", "pi76"}
        \/ (pc \in {"ac95", "ac112", "ac121"} /\ acret \in {"pi60r", "pi64r"})

\* inside arccot
InArccot == pc \in {"ac95", "ac112", "ac121"}

\* main has the value pi returned
MainHasValue == pc \in {"main17", "exit"}

\* the last value pi returned
LastValue == returned[Len(returned)].value

\* the k-th term of the series of arccot, every division truncated toward
\* zero.  st is the series before the k-th term: the power P, the sum so
\* far, and whether a zero term has ended it
SeriesTerm(st, x2, k) ==
    With(Quo(st.P, x2), LAMBDA Pk :
    With(Quo(Pk, NewInt(2 * k + 1)), LAMBDA t :
        IF IsZero(t) THEN [P |-> Pk, sum |-> st.sum, done |-> TRUE]
        ELSE [P |-> Pk, sum |-> Add(st.sum, IF k % 2 = 0 THEN t ELSE Neg(t)),
              done |-> FALSE]))

\* the terms lo .. hi
RECURSIVE SeriesRange(_, _, _, _)
SeriesRange(st, x2, lo, hi) ==
    IF st.done THEN st
    ELSE IF lo = hi THEN SeriesTerm(st, x2, lo)
    ELSE With(SeriesRange(st, x2, lo, (lo + hi) \div 2), LAMBDA half :
             SeriesRange(half, x2, (lo + hi) \div 2 + 1, hi))

\* the terms from lo on, count of them at first, until a term is zero
RECURSIVE SeriesFrom(_, _, _, _)
SeriesFrom(st, x2, lo, count) ==
    IF st.done THEN st
    ELSE With(SeriesRange(st, x2, lo, lo + count - 1), LAMBDA some :
             SeriesFrom(some, x2, lo + count, 2 * count))

\* P_0 + sum over k = 1 .. m-1 of (-1)^k * trunc(P_k / (2k+1))
Series(v, u) ==
    With2(Quo(u, v), Mul(v, v), LAMBDA P0, x2 :
        SeriesFrom([P |-> P0, sum |-> P0, done |-> FALSE], x2, 1, 1).sum)

\* Machin's formula at the scale 10^(d+10), the guard digits removed
Machin(d) ==
    With(Pow10(d + 10), LAMBDA u :
        Quo(Mul(NewInt(4), Sub(Mul(NewInt(4), Series(NewInt(5), u)),
                               Series(NewInt(239), u))),
            Pow10(10)))

\* the characters of a sequence of decimal digits
Chars(ds) == [i \in 1..Len(ds) |-> DigitChar(ds[i])]

\* the value of the decimal digits lo .. hi of ds
RECURSIVE DecimalValue(_, _, _)
DecimalValue(ds, lo, hi) ==
    IF lo = hi THEN NewInt(ds[lo])
    ELSE LET mid == (lo + hi) \div 2
         IN  Add(Mul(DecimalValue(ds, lo, mid), Pow10(hi - mid)),
                 DecimalValue(ds, mid + 1, hi))

\* pi to 50 decimal places, truncated
Pi50 == <<3, 1,4,1,5,9,2,6,5,3,5, 8,9,7,9,3,2,3,8,4,6, 2,6,4,3,3,8,3,2,7,9,
          5,0,2,8,8,4,1,9,7,1, 6,9,3,9,9,3,7,5,1,0>>

(***************************************************************************)
(* The claims.                                                             *)
(***************************************************************************)

\* C1: pi(0) = 3, pi(5) = 314159 and pi(50) is 3 followed by the first 50
\* decimal digits of pi, as a value and as the string main prints from.
C1_KnownValues ==
    MainHasValue =>
        /\ places = 0 => LastValue = NewInt(3) /\ scaledPi = <<"3">>
        /\ places = 5 => LastValue = NewInt(314159)
                         /\ scaledPi = <<"3", "1", "4", "1", "5", "9">>
        /\ places = 50 => LastValue = DecimalValue(Pi50, 1, Len(Pi50))
                          /\ scaledPi = Chars(Pi50)

C1_Witness == pc = "exit" /\ places = 50 /\ Len(scaledPi) = 51

\* C2: for places >= 0 the value pi returns is in [3 * 10^places, 4 * 10^places):
\* its string is a 3 and places more digits, and main prints "3." and exactly
\* those places digits.
C2_ThreeAndPlaces ==
    (MainHasValue /\ places >= 0) =>
        /\ Cmp(LastValue, Mul(NewInt(3), Pow10(places))) >= 0
        /\ Cmp(LastValue, Mul(NewInt(4), Pow10(places))) < 0
        /\ Len(scaledPi) = places + 1
        /\ scaledPi[1] = "3"
        /\ pc = "exit" =>
              out = <<"3", ".">> \o [i \in 1..places |-> scaledPi[i + 1]] \o <<"\n">>

C2_Witness == pc = "exit" /\ places = 7 /\ Len(out) = 10

\* C3: of two calls pi(d1) and pi(d2) with d1 < d2, pi(d2) without its last
\* d2 - d1 digits is pi(d1), up to one unit of pi(d1)'s last digit.
C3_MonotonicPrecision ==
    \A i, j \in 1..Len(returned) :
        returned[i].places < returned[j].places =>
            LET cut  == Quo(returned[j].value,
                            Pow10(returned[j].places - returned[i].places))
                diff == Sub(cut, returned[i].value)
            IN  Cmp(diff, NewInt(1)) <= 0 /\ Cmp(diff, NewInt(-1)) >= 0

C3_Witness ==
    /\ Len(returned) = 2
    /\ returned[1].places = 11 /\ returned[2].places = 4
    /\ Quo(returned[1].value, Pow10(7)) = returned[2].value

\* in every pass k of the loop, x^(2*(k-1)) <= unity
C4_PassBound == pass >= 1 => Cmp(ExpFrom(x, 2 * (pass - 1)), unity) <= 0

\* a pass that does not end the loop leaves xpower strictly less
C4_PowerDecreases ==
    [][(pc = "ac112" /\ pc' = "ac121" /\ ~Exhausted(term'))
          => Cmp(xpower', xpower) < 0]_vars

\* C4: arccot(x, unity) returns for every x >= 2 and unity >= 1: xpower is
\* strictly less after every pass that does not end the loop, and every pass
\* k, the last included, has x^(2*(k-1)) <= unity, so the passes are at most
\* log_{x^2}(unity) + 1.
C4_Terminates ==
    []C4_PassBound /\ C4_PowerDecreases /\ <>(pc = "caller")

C4_Witness == pc = "caller" /\ pass >= 5

\* C5: for places >= 0, places = 0 included, no divisor is zero where it is
\* used, unity is 10^(places+10) >= 10^10, nothing panics and main gets a
\* value.
C5_NoError ==
    places >= 0 =>
        /\ pc # "panic"
        /\ pc = "ac95" => ~IsZero(x)
        /\ pc = "ac112" => ~IsZero(square) /\ ~IsZero(n)
        /\ pc = "pi74" => ~IsZero(Guard)
        /\ InPi => unity = Pow10(places + 10) /\ Cmp(unity, Pow10(10)) >= 0
        /\ MainHasValue => Len(returned) = 1 /\ ~LastValue.neg

C5_Witness == pc = "exit" /\ places = 0 /\ LastValue = NewInt(3)

\* C6: two calls of pi with the same places return the same Int, whatever
\* was called between them.
C6_Idempotent ==
    \A i, j \in 1..Len(returned) :
        returned[i].places = returned[j].places => returned[i].value = returned[j].value

C6_Witness ==
    /\ Len(returned) = 3
    /\ returned[1].places = returned[3].places
    /\ returned[2].places # returned[1].places

\* C7: a negative places is rejected: pi returns no value to main for it.
C7_NegativeRejected == ~(MainHasValue /\ places < 0)

\* inside pi, unity is 10^(places+10) (1 for an exponent below zero)
C8_UnityIs ==
    InPi => unity = Pow10(IF places + 10 > 0 THEN places + 10 ELSE 0)

\* what the steps of pi and arccot leave as it is
C8_Frame ==
    [][/\ (InPi /\ pc # "pi76") => unity' = unity
       /\ InArccot => x' = x /\ unity' = unity
       /\ pc \in {"pi60r", "pi67"} => unity' = unity /\ right' = right]_vars

\* C8: unity is written by line 51 alone: inside pi it is 10^(places+10),
\* arccot(239, unity) included; no step of arccot writes x or unity, and the
\* steps that write left (lines 61 and 67) write neither unity nor right.
C8_ScaleImmutable == []C8_UnityIs /\ C8_Frame

C8_Witness == pc = "ac121" /\ x = NewInt(239) /\ places = 3 /\ unity = Pow10(13)

\* C9: arccot returns P_0 + sum over k = 1 .. m-1 of (-1)^k * trunc(P_k / (2k+1)),
\* m the first k with a zero term, and a pass k starts with n = 2k+1 and
\* sign = (-1)^k.
C9_Series ==
    /\ pc = "caller" => sum = Series(x, unity)
    /\ pc = "ac112" =>
          /\ n = NewInt(2 * (pass + 1) + 1)
          /\ sign = NewInt(IF (pass + 1) % 2 = 0 THEN 1 ELSE -1)

C9_Witness == pc = "caller" /\ pass >= 5 /\ x = NewInt(5) /\ sum = Series(x, unity)

\* C10: pi(places) is trunc(4 * (4 * arccot(5, unity) - arccot(239, unity)) / 10^10)
\* with unity = 10^(places+10).
C10_Machin ==
    (pc = "main17" /\ places >= 0) => LastValue = Machin(places)

C10_Witness == pc = "main17" /\ places = 20 /\ LastValue = Machin(20)

====
